---------------------------- MODULE Spec2Model ----------------------------
(***************************************************************************)
(* Model of the QR image platform of src/app.py: the upload handler, the   *)
(* JSON metadata store (load_image_data / save_image_data), the retention  *)
(* sweep (clean_old_images) and the read endpoints.                        *)
(*                                                                         *)
(* Time is counted in whole days.  A file name is a sequence of one-       *)
(* character strings.  The persistence file, the image directory and the   *)
(* QR directory are the shared state; every request-handling thread has    *)
(* its own program counter and locals.                                     *)
(***************************************************************************)
EXTENDS Integers, Sequences, FiniteSets, TLC

(***************************************************************************)
(* Bounds of the model.                                                    *)
(***************************************************************************)
\* The clock stops advancing at MaxTime days.
MaxTime == 8
\* At most MaxIds uploads pass validation (uuid4 values handed out).
MaxIds == 2
\* At most MaxFaults I/O calls fail in one run.
MaxFaults == 1

(***************************************************************************)
(* Program constants.                                                      *)
(***************************************************************************)
\* timedelta(days=7)
MaxAge == 7
\* '2024-01-01T00:00:00', the default of info.get('upload_time', ...), as a day.
DefaultUploadTime == 0

\* The request-handling threads of the server.
Workers == {"w1", "w2"}

\* The one thread of a single-threaded run.
MainWorker == "w1"

VARIABLES
    now,        \* the wall clock (datetime.now()), in days
    dataFile,   \* DATA_FILE: [kind, data]
    files,      \* IMAGES_DIR and QR_DIR: path -> content, for the files that exist
    nextId,     \* the uuid4 values already handed out are 1..nextId-1
    faults,     \* how many I/O calls have failed so far
    pc,         \* per worker: where its request handler stands
    req,        \* per worker: the request being handled
    image_id,   \* per worker: upload_image's image_id
    optimized,  \* per worker: what optimize_image returned
    data,       \* per worker: the local mapping `data`
    to_remove,  \* per worker: clean_old_images' to_remove
    response,   \* per worker: the response of its last finished request
    trace,      \* per worker: what happened inside the request (history)
    opt         \* one call of optimize_image followed step by step: its locals

vars == <<now, dataFile, files, nextId, faults, pc, req, image_id, optimized,
          data, to_remove, response, trace, opt>>

(***************************************************************************)
(* Mappings (Python dicts) are functions; {} is the empty function.        *)
(***************************************************************************)
EmptyMap == [i \in {} |-> i]

Restrict(m, S) == [i \in (DOMAIN m) \cap S |-> m[i]]

Put(m, k, v) == [i \in (DOMAIN m) \cup {k} |-> IF i = k THEN v ELSE m[i]]

(***************************************************************************)
(* allowed_file and secure_filename.                                       *)
(***************************************************************************)
ALLOWED_EXTENSIONS ==
    { <<"p","n","g">>, <<"j","p","g">>, <<"j","p","e","g">>,
      <<"g","i","f">>, <<"b","m","p">>, <<"w","e","b","p">> }

\* str.lower() on one character.
Lower(c) ==
    CASE c = "P" -> "p" [] c = "N" -> "n" [] c = "G" -> "g"
      [] c = "J" -> "j" [] c = "T" -> "t" [] c = "X" -> "x"
      [] OTHER -> c

LowerSeq(s) == [i \in 1..Len(s) |-> Lower(s[i])]

\* The index of the last '.' of the name, 0 when it has none.
LastDot(name) ==
    LET dots == {i \in 1..Len(name) : name[i] = "."}
    IN  IF dots = {} THEN 0 ELSE CHOOSE i \in dots : \A j \in dots : j <= i

\* filename.rsplit('.', 1)[1]
Extension(name) == SubSeq(name, LastDot(name) + 1, Len(name))

\* A test that accepts every name with a dot, for comparison with allowed_file.
AllowedFileMutAnyDot(filename) == LastDot(filename) # 0

allowed_file(filename) ==
    /\ LastDot(filename) # 0
    /\ LowerSeq(Extension(filename)) \in ALLOWED_EXTENSIONS

\* werkzeug's secure_filename on the characters of the model: path separators
\* and white space become '_', leading and trailing '.' and '_' are stripped.
Underscored(name) ==
    [i \in 1..Len(name) |-> IF name[i] \in {" ", "/"} THEN "_" ELSE name[i]]

RECURSIVE StripLeft(_)
StripLeft(s) ==
    IF s # <<>> /\ Head(s) \in {".", "_"} THEN StripLeft(Tail(s)) ELSE s

RECURSIVE StripRight(_)
StripRight(s) ==
    IF s # <<>> /\ s[Len(s)] \in {".", "_"}
    THEN StripRight(SubSeq(s, 1, Len(s) - 1))
    ELSE s

secure_filename(name) == StripRight(StripLeft(Underscored(name)))

(***************************************************************************)
(* Identifiers, paths and file contents.                                   *)
(***************************************************************************)
Ids == 1..MaxIds

\* os.path.join(IMAGES_DIR, f"{image_id}.jpg")
ImagePath(id) == <<"static/images", id>>

\* os.path.join(QR_DIR, f"qr_{image_id}.png")
QrPath(id) == <<"static/qr_codes", id>>

\* url_for('view_image', image_id=image_id, _external=True)
ViewUrl(id) == <<"/view/", id>>

\* The bytes of the uploaded file: a decodable image or not.
OriginalBytes(decodable) == IF decodable THEN "original-image" ELSE "original-garbage"

\* The PNG that qr_image.save writes for a URL.
QrContent(url) == <<"qr", url>>

\* os.path.getsize of a file with this content.
FileSize(content) == <<"len", content>>

\* os.path.exists
Exists(fs, path) == path \in DOMAIN fs

IsImagePath(path) == path[1] = "static/images"

\* os.remove of an existing file.
Remove(fs, path) == [q \in (DOMAIN fs) \ {path} |-> fs[q]]

(***************************************************************************)
(* datetime.isoformat / datetime.fromisoformat: an ISO-8601 string is the  *)
(* pair <<"iso", day>>; any other string does not parse.                   *)
(***************************************************************************)
IsoFormat(t) == <<"iso", t>>

FromIsoFormat(s) ==
    IF Len(s) = 2 /\ s[1] = "iso"
    THEN [ok |-> TRUE, value |-> s[2]]
    ELSE [ok |-> FALSE, value |-> 0]

\* info.get('upload_time', '2024-01-01T00:00:00')
\* A lookup whose default is no date, for comparison with UploadTimeField.
UploadTimeFieldMutNoDate(info) ==
    IF "upload_time" \in DOMAIN info THEN info.upload_time ELSE <<"">>

UploadTimeField(info) ==
    IF "upload_time" \in DOMAIN info
    THEN info.upload_time
    ELSE IsoFormat(DefaultUploadTime)

\* info.get('image_path', '') and info.get('qr_path', '')
PathField(info, field) == IF field \in DOMAIN info THEN info[field] ELSE <<"">>

(***************************************************************************)
(* What the environment may do to an I/O call.  A reliable environment     *)
(* lets every call succeed; a faulty one may fail any of them.             *)
(***************************************************************************)
\* Whether one more call may fail.
MayFail(faulty) == faulty /\ faults < MaxFaults

\* The failures an outcome adds to the count.
Failed(outcome) == IF outcome = "ok" THEN 0 ELSE 1

\* open(DATA_FILE) / json.load: "fail" is any exception of lines 45-47.
LoadOutcomes(faulty) == IF MayFail(faulty) THEN {"ok", "fail"} ELSE {"ok"}

\* open(..., 'w') then the writes: the open may fail (the file is left as it
\* was) or a write may fail after the open truncated the file.
WriteOutcomes(faulty) ==
    IF MayFail(faulty) THEN {"ok", "open_failed", "write_failed"} ELSE {"ok"}

\* For one expired record: which os.remove raises, if it is called.
DeleteOutcomes(faulty) ==
    IF MayFail(faulty) THEN {"ok", "image_fails", "qr_fails"} ELSE {"ok"}

\* qrcode's encoder, and the steps of optimize_image after the decode.
CallOutcomes(faulty) == IF MayFail(faulty) THEN {"ok", "fail"} ELSE {"ok"}

(***************************************************************************)
(* The metadata store.                                                     *)
(***************************************************************************)
AbsentFile == [kind |-> "absent", data |-> EmptyMap]

\* The mapping a reader of the persistence file gets: its records.
Records(file) == IF file.kind = "json" THEN file.data ELSE EmptyMap

\* A reader that forgets every record, for comparison with load_image_data.
LoadMutForgets(file, outcome) == EmptyMap

load_image_data(file, outcome) ==
    IF file.kind = "json" /\ outcome = "ok" THEN file.data ELSE EmptyMap

\* The Python type of what load_image_data returns: line 47 returns whatever
\* json.load parsed, so a file that holds a JSON array yields a list (with
\* no element: load_image_data above gives its records, none); every other
\* path yields a dict.
LoadedType(file, outcome) ==
    IF file.kind = "json_list" /\ outcome = "ok" THEN "list" ELSE "dict"

\* What save_image_data hands to its caller: the function has no return
\* statement and line 58 catches every exception, so None either way.
SaveResult(outcome) == "None"

\* What clean_old_images hands to its caller: None on every path.
clean_old_images_result == "None"

\* The persistence file after save_image_data(d).
\* A writer that merges with the file instead of overwriting it, for comparison.
SaveMutMerges(file, d, outcome) ==
    [kind |-> "json",
     data |-> [i \in (DOMAIN Records(file)) \cup (DOMAIN d) |->
                 IF i \in DOMAIN d THEN d[i] ELSE Records(file)[i]]]

save_image_data(file, d, outcome) ==
    CASE outcome = "ok" -> [kind |-> "json", data |-> d]
      [] outcome = "open_failed" -> file
      [] OTHER -> [kind |-> "corrupt", data |-> EmptyMap]

(***************************************************************************)
(* clean_old_images: the loop of lines 68-80 over the loaded mapping, in   *)
(* the mapping's order (ids are inserted in increasing order).             *)
(***************************************************************************)
RECURSIVE SortedIds(_)
SortedIds(S) ==
    IF S = {} THEN <<>>
    ELSE LET m == CHOOSE i \in S : \A j \in S : i <= j
         IN  <<m>> \o SortedIds(S \ {m})

Range(s) == {s[i] : i \in 1..Len(s)}

\* current_time - upload_time > timedelta(days=7)
\* The comparison with >= instead of >.
ExpiredMutAtLeast(upload_time, current_time) == current_time - upload_time >= MaxAge

\* The comparison one day early.
ExpiredMutDayEarly(upload_time, current_time) == current_time - upload_time > MaxAge - 1

Expired(upload_time, current_time) == current_time - upload_time > MaxAge

\* Lines 74-80 for one expired record: st is [files, failed]; `outcome` names
\* the os.remove that raises when it is called.  The first exception leaves
\* the try block, so a failing image removal skips the QR file.
\* A removal that leaves the QR file behind, for comparison with RemoveFiles.
RemoveFilesMutKeepQr(fs, info, outcome) ==
    LET ip == PathField(info, "image_path")
    IN  [files |-> IF Exists(fs, ip) THEN Remove(fs, ip) ELSE fs, raised |-> FALSE]

RemoveFiles(fs, info, outcome) ==
    LET ip == PathField(info, "image_path")
        qp == PathField(info, "qr_path")
    IN  IF Exists(fs, ip) /\ outcome = "image_fails"
        THEN [files |-> fs, raised |-> TRUE]
        ELSE LET fs1 == IF Exists(fs, ip) THEN Remove(fs, ip) ELSE fs
             IN  IF Exists(fs1, qp) /\ outcome = "qr_fails"
                 THEN [files |-> fs1, raised |-> TRUE]
                 ELSE [files |-> IF Exists(fs1, qp) THEN Remove(fs1, qp) ELSE fs1,
                       raised |-> FALSE]

\* st is [files, to_remove, failed, raised]: the files on disk, the ids
\* collected so far, the ids one of whose removals raised, and whether
\* datetime.fromisoformat raised (which ends the loop: line 90 catches it).
RECURSIVE ScanLoop(_, _, _, _, _)
ScanLoop(ids, d, current_time, del, st) ==
    IF ids = <<>> THEN st
    ELSE LET image_id_ == Head(ids)
             info == d[image_id_]
             upload_time == FromIsoFormat(UploadTimeField(info))
         IN  IF ~upload_time.ok
             THEN [st EXCEPT !.raised = TRUE]
             ELSE IF Expired(upload_time.value, current_time)
             THEN LET r == RemoveFiles(st.files, info, del[image_id_])
                  IN  ScanLoop(Tail(ids), d, current_time, del,
                          [files |-> r.files,
                           to_remove |-> Append(st.to_remove, image_id_),
                           failed |-> IF r.raised
                                      THEN st.failed \cup {image_id_}
                                      ELSE st.failed,
                           raised |-> FALSE])
             ELSE ScanLoop(Tail(ids), d, current_time, del, st)

\* Lines 86-88: how many times one sweep calls save_image_data.
\* One call for every removed record, for comparison with SaveCalls.
SaveCallsMutPerRecord(ids) == Len(ids)

SaveCalls(ids) == IF ids # <<>> THEN 1 ELSE 0

\* Lines 83-84: data.pop(image_id, None) for every collected id.
PopAll(d, ids) == Restrict(d, (DOMAIN d) \ Range(ids))

(***************************************************************************)
(* Requests, responses and the per-request history.                        *)
(***************************************************************************)
NoRequest == [kind |-> "none"]

UploadRequest(has_image, filename, decodable) ==
    [kind |-> "upload", has_image |-> has_image, filename |-> filename,
     decodable |-> decodable]

ReadRequest(endpoint, id) == [kind |-> endpoint, id |-> id]

NoResponse == [status |-> 0, body |-> "none"]

\* jsonify({'error': ...}), status
ErrorResponse(status) == [status |-> status, body |-> "error"]

\* jsonify(response_data) of lines 1051-1059
SuccessResponse(id) ==
    [status |-> 200, body |-> "success", image_id |-> id,
     view_url |-> ViewUrl(id), qr_url |-> <<"/qr/", id>>,
     download_qr_url |-> <<"/download-qr/", id>>]

\* What the read endpoints answer.
NotFound == [status |-> 404, body |-> "not found"]

Served(what) == [status |-> 200, body |-> "served", content |-> what]

\* The history of one request: what its sweep saw and did, and how its own
\* I/O calls ended ("none": not called).
NoTrace ==
    [sweepPre |-> EmptyMap, sweepFiles |-> EmptyMap, sweepNow |-> 0,
     sweepLoad |-> "none", sweepResult |-> "none", saveResult |-> "none",
     sweepFailed |-> {}, sweepRaised |-> FALSE, sweepSave |-> "none",
     sweepWrites |-> 0, sweepWritten |-> EmptyMap,
     sweepFile |-> "none", sweepLoaded |-> EmptyMap, sweepLoadType |-> "none",
     swept |-> FALSE, optimize |-> "none", imageWrite |-> "none",
     encode |-> "none", qrWrite |-> "none", load |-> "none", save |-> "none"]

\* No call of optimize_image is being followed.
NoSearch == [pc |-> "idle"]

\* The record of lines 1040-1047.
NewRecord(id, filename, fs, t) ==
    [original_name |-> secure_filename(filename),
     image_path |-> ImagePath(id),
     qr_path |-> QrPath(id),
     upload_time |-> IsoFormat(t),
     view_url |-> ViewUrl(id),
     file_size |-> FileSize(fs[ImagePath(id)])]

TypeOK ==
    /\ now \in 0..MaxTime
    /\ dataFile.kind \in {"absent", "json", "corrupt", "json_list"}
    /\ nextId \in 1..(MaxIds + 1)
    /\ faults \in 0..MaxFaults
    /\ pc \in [Workers -> {"idle", "done", "clean", "clean_save", "optimize", "write_image",
                            "encode_qr", "write_qr", "insert", "save", "respond"}]
    /\ DOMAIN response = Workers
    /\ DOMAIN trace = Workers

Init ==
    /\ now = 0
    /\ dataFile = AbsentFile
    /\ files = EmptyMap
    /\ nextId = 1
    /\ faults = 0
    /\ pc = [p \in Workers |-> "idle"]
    /\ req = [p \in Workers |-> NoRequest]
    /\ image_id = [p \in Workers |-> 0]
    /\ optimized = [p \in Workers |-> "none"]
    /\ data = [p \in Workers |-> EmptyMap]
    /\ to_remove = [p \in Workers |-> <<>>]
    /\ response = [p \in Workers |-> NoResponse]
    /\ trace = [p \in Workers |-> NoTrace]
    /\ opt = NoSearch

\* The handler of worker p returns resp: its locals die.
Return(p, resp) ==
    /\ pc' = [pc EXCEPT ![p] = "done"]
    /\ response' = [response EXCEPT ![p] = resp]
    /\ optimized' = [optimized EXCEPT ![p] = "none"]
    /\ data' = [data EXCEPT ![p] = EmptyMap]
    /\ to_remove' = [to_remove EXCEPT ![p] = <<>>]

\* The order of upload_image's steps after the sweep (lines 1003-1059):
\* optimize, write the image file, encode the QR code, write the QR file,
\* insert the record, persist the store, answer.
\* An order that persists the record before the files are written, for comparison.
NextLabelMutPersistFirst(label) ==
    CASE label = "optimize" -> "write_image"
      [] label = "write_image" -> "encode_qr"
      [] label = "encode_qr" -> "insert"
      [] label = "insert" -> "save"
      [] label = "save" -> "write_qr"
      [] OTHER -> "respond"

NextLabel(label) ==
    CASE label = "optimize" -> "write_image"
      [] label = "write_image" -> "encode_qr"
      [] label = "encode_qr" -> "write_qr"
      [] label = "write_qr" -> "insert"
      [] label = "insert" -> "save"
      [] OTHER -> "respond"

\* Worker p goes on to the next step of its handler.
Goto(p, label) ==
    /\ pc' = [pc EXCEPT ![p] = label]
    /\ UNCHANGED response

\* The uploads that hold or will still draw a uuid4 value.
Pending == {q \in Workers : pc[q] \in {"clean", "clean_save", "optimize"}}

(***************************************************************************)
(* upload_image, lines 984-997: the request is rejected with status 400.   *)
(***************************************************************************)
Valid(r) == r.has_image /\ r.filename # <<>> /\ allowed_file(r.filename)

\* The upload requests of the model: one without an 'image' part, three
\* whose file name is refused, and two that pass the checks, one carrying an
\* image and one carrying bytes that are no image.
UploadRequests ==
    { UploadRequest(FALSE, <<>>, TRUE),
      UploadRequest(TRUE, <<>>, TRUE),
      UploadRequest(TRUE, <<"p","n","g">>, TRUE),
      UploadRequest(TRUE, <<"x",".","t","x","t">>, TRUE),
      UploadRequest(TRUE, <<"a",".","P","N","G">>, TRUE),
      UploadRequest(TRUE, <<"b"," ","c",".","j","p","g">>, FALSE) }

RejectUpload(p) ==
    /\ pc[p] = "idle"
    /\ \E r \in UploadRequests :
          /\ ~Valid(r)
          /\ req' = [req EXCEPT ![p] = r]
    /\ image_id' = [image_id EXCEPT ![p] = 0]
    /\ trace' = [trace EXCEPT ![p] = NoTrace]
    /\ Return(p, ErrorResponse(400))
    /\ UNCHANGED <<opt, now, dataFile, files, nextId, faults>>

\* Lines 984-999: the request passes the three checks.
AcceptUpload(p) ==
    /\ pc[p] = "idle"
    /\ nextId + Cardinality(Pending) <= MaxIds
    /\ \E r \in UploadRequests :
          /\ Valid(r)
          /\ req' = [req EXCEPT ![p] = r]
    /\ image_id' = [image_id EXCEPT ![p] = 0]
    /\ trace' = [trace EXCEPT ![p] = NoTrace]
    /\ pc' = [pc EXCEPT ![p] = "clean"]
    /\ response' = [response EXCEPT ![p] = NoResponse]
    /\ UNCHANGED <<opt, now, dataFile, files, nextId, faults, optimized, data, to_remove>>

(***************************************************************************)
(* clean_old_images, lines 64-84: load, the loop, the pops.  An exception  *)
(* of the loop (data.items() of a list included) is caught at line 90 and  *)
(* the function returns.                                                   *)
(***************************************************************************)
\* A failing read shows only when the file holds records.
LoadChoices(faulty) ==
    IF Records(dataFile) = EmptyMap /\ dataFile.kind # "json_list"
    THEN {"ok"}
    ELSE LoadOutcomes(faulty)

SweepScan(p, faulty) ==
    /\ pc[p] = "clean"
    /\ \E lo \in LoadChoices(faulty) :
          LET loaded == load_image_data(dataFile, lo)
          IN  \E del \in [DOMAIN loaded -> DeleteOutcomes(faulty)] :
                LET start == [files |-> files, to_remove |-> <<>>,
                              failed |-> {}, raised |-> FALSE]
                    st == IF LoadedType(dataFile, lo) = "dict"
                          THEN ScanLoop(SortedIds(DOMAIN loaded), loaded, now,
                                        del, start)
                          ELSE [start EXCEPT !.raised = TRUE]
                    saves == ~st.raised /\ SaveCalls(st.to_remove) > 0
                IN  /\ faults + Failed(lo) + Cardinality(st.failed) <= MaxFaults
                    /\ faults' = faults + Failed(lo) + Cardinality(st.failed)
                    /\ files' = st.files
                    /\ to_remove' = [to_remove EXCEPT ![p] = st.to_remove]
                    /\ data' = [data EXCEPT ![p] =
                                  IF st.raised THEN loaded
                                  ELSE PopAll(loaded, st.to_remove)]
                    /\ trace' = [trace EXCEPT ![p] =
                                  [@ EXCEPT !.sweepPre = Records(dataFile),
                                            !.sweepFiles = files,
                                            !.sweepResult =
                                                IF saves THEN "none"
                                                ELSE clean_old_images_result,
                                            !.sweepNow = now,
                                            !.sweepLoad = lo,
                                            !.sweepFile = dataFile.kind,
                                            !.sweepLoaded = loaded,
                                            !.sweepLoadType =
                                                LoadedType(dataFile, lo),
                                            !.sweepFailed = st.failed,
                                            !.sweepRaised = st.raised,
                                            !.swept = ~saves]]
                    /\ Goto(p, IF saves THEN "clean_save" ELSE "optimize")
    /\ UNCHANGED <<opt, now, dataFile, nextId, req, image_id, optimized>>

\* Lines 86-88: save_image_data(data) when something was removed.
SweepSave(p, faulty) ==
    /\ pc[p] = "clean_save"
    /\ LET last == trace[p].sweepWrites + 1 >= SaveCalls(to_remove[p])
       IN  /\ \E so \in WriteOutcomes(faulty) :
                /\ dataFile' = save_image_data(dataFile, data[p], so)
                /\ faults' = faults + Failed(so)
                /\ trace' = [trace EXCEPT ![p] =
                              [@ EXCEPT !.sweepSave = so, !.swept = last,
                                        !.sweepWrites = @ + 1,
                                        !.sweepWritten = data[p],
                                        !.sweepResult =
                                            IF last THEN clean_old_images_result
                                            ELSE "none"]]
           /\ Goto(p, IF last THEN "optimize" ELSE "clean_save")
    /\ UNCHANGED <<opt, now, files, nextId, req, image_id, optimized, data, to_remove>>

(***************************************************************************)
(* upload_image after the sweep.                                           *)
(***************************************************************************)
\* optimize_image as upload_image sees it: the JPEG of the search, or, when
\* the decode or any later step raises (line 157), the file it was given.
optimize_image(decodable, outcome) ==
    IF decodable /\ outcome = "ok" THEN "jpeg" ELSE OriginalBytes(decodable)

\* Lines 1003-1009: uuid4, then optimize_image.
Optimize(p, faulty) ==
    /\ pc[p] = "optimize"
    /\ image_id' = [image_id EXCEPT ![p] = nextId]
    /\ nextId' = nextId + 1
    /\ \E oo \in (IF req[p].decodable THEN CallOutcomes(faulty) ELSE {"decode_error"}) :
          /\ optimized' = [optimized EXCEPT ![p] = optimize_image(req[p].decodable, oo)]
          /\ faults' = faults + (IF oo = "fail" THEN 1 ELSE 0)
          /\ trace' = [trace EXCEPT ![p] = [@ EXCEPT !.optimize = oo]]
    /\ Goto(p, NextLabel("optimize"))
    /\ UNCHANGED <<opt, now, dataFile, files, req, data, to_remove>>

\* open(path, 'wb') and the write, for the image and for the QR code.
WriteFile(fs, path, content, outcome) ==
    CASE outcome = "ok" -> Put(fs, path, content)
      [] outcome = "open_failed" -> fs
      [] OTHER -> Put(fs, path, "partial")

\* Lines 1012-1020; an exception goes to line 1061 and answers 500.
WriteImage(p, faulty) ==
    /\ pc[p] = "write_image"
    /\ \E wo \in WriteOutcomes(faulty) :
          /\ files' = WriteFile(files, ImagePath(image_id[p]), optimized[p], wo)
          /\ faults' = faults + Failed(wo)
          /\ trace' = [trace EXCEPT ![p] = [@ EXCEPT !.imageWrite = wo]]
          /\ IF wo = "ok"
             THEN Goto(p, NextLabel("write_image")) /\ UNCHANGED <<optimized, data, to_remove>>
             ELSE Return(p, ErrorResponse(500))
    /\ UNCHANGED <<opt, now, dataFile, nextId, req, image_id>>

\* create_qr_code, lines 165-181: the QR image of the URL, or None when the
\* encoder raises (the data exceeds the largest version, or any other error).
\* An encoder that yields a code all the same, for comparison.
CreateQrMutTruncates(url, outcome) == [kind |-> "image", content |-> QrContent(url)]

create_qr_code(url, outcome) ==
    IF outcome = "ok" THEN [kind |-> "image", content |-> QrContent(url)]
    ELSE [kind |-> "None"]

\* Lines 1023-1029 and 1034-1036: create_qr_code returns None when the
\* encoder raises, and the handler answers 500.
EncodeQr(p, faulty) ==
    /\ pc[p] = "encode_qr"
    /\ \E eo \in CallOutcomes(faulty) :
          /\ faults' = faults + Failed(eo)
          /\ trace' = [trace EXCEPT ![p] = [@ EXCEPT !.encode = eo]]
          /\ IF create_qr_code(ViewUrl(image_id[p]), eo).kind # "None"
             THEN Goto(p, NextLabel("encode_qr")) /\ UNCHANGED <<optimized, data, to_remove>>
             ELSE Return(p, ErrorResponse(500))
    /\ UNCHANGED <<opt, now, dataFile, files, nextId, req, image_id>>

\* Lines 1030-1033: qr_image.save(qr_path).
WriteQr(p, faulty) ==
    /\ pc[p] = "write_qr"
    /\ \E wo \in WriteOutcomes(faulty) :
          /\ files' = WriteFile(files, QrPath(image_id[p]),
                                QrContent(ViewUrl(image_id[p])), wo)
          /\ faults' = faults + Failed(wo)
          /\ trace' = [trace EXCEPT ![p] = [@ EXCEPT !.qrWrite = wo]]
          /\ IF wo = "ok"
             THEN Goto(p, NextLabel("write_qr")) /\ UNCHANGED <<optimized, data, to_remove>>
             ELSE Return(p, ErrorResponse(500))
    /\ UNCHANGED <<opt, now, dataFile, nextId, req, image_id>>

\* Lines 1039-1047: data = load_image_data(); data[image_id] = {...}.
\* os.path.getsize raises when the image file is gone, and the assignment
\* raises TypeError when data is a list.
Insert(p, faulty) ==
    /\ pc[p] = "insert"
    /\ \E lo \in LoadChoices(faulty) :
          /\ faults' = faults + Failed(lo)
          /\ trace' = [trace EXCEPT ![p] = [@ EXCEPT !.load = lo]]
          /\ IF /\ Exists(files, ImagePath(image_id[p]))
                /\ LoadedType(dataFile, lo) = "dict"
             THEN /\ data' = [data EXCEPT ![p] =
                               Put(load_image_data(dataFile, lo), image_id[p],
                                   NewRecord(image_id[p], req[p].filename, files, now))]
                  /\ Goto(p, NextLabel("insert"))
                  /\ UNCHANGED <<optimized, to_remove>>
             ELSE Return(p, ErrorResponse(500))
    /\ UNCHANGED <<opt, now, dataFile, files, nextId, req, image_id>>

\* Line 1048: save_image_data(data); it returns None whatever happened.
Save(p, faulty) ==
    /\ pc[p] = "save"
    /\ \E so \in WriteOutcomes(faulty) :
          /\ dataFile' = save_image_data(dataFile, data[p], so)
          /\ faults' = faults + Failed(so)
          /\ trace' = [trace EXCEPT ![p] =
                        [@ EXCEPT !.save = so, !.saveResult = SaveResult(so)]]
    /\ Goto(p, NextLabel("save"))
    /\ UNCHANGED <<opt, now, files, nextId, req, image_id, optimized, data, to_remove>>

\* Lines 1051-1059.
Respond(p) ==
    /\ pc[p] = "respond"
    /\ Return(p, SuccessResponse(image_id[p]))
    /\ UNCHANGED <<opt, now, dataFile, files, nextId, faults, req, image_id, trace>>

(***************************************************************************)
(* The read endpoints.                                                     *)
(***************************************************************************)
StartRead(p, endpoint, id, lo) ==
    /\ pc[p] = "idle"
    /\ req' = [req EXCEPT ![p] = ReadRequest(endpoint, id)]
    /\ image_id' = [image_id EXCEPT ![p] = 0]
    /\ trace' = [trace EXCEPT ![p] = [NoTrace EXCEPT !.load = lo]]
    /\ faults' = faults + Failed(lo)
    /\ UNCHANGED <<opt, now, dataFile, files, nextId>>

\* Lines 1067-1077.
view_image(p, faulty) ==
    \E id \in Ids, lo \in LoadChoices(faulty) :
      LET d == load_image_data(dataFile, lo)
      IN  /\ StartRead(p, "view", id, lo)
          /\ Return(p, IF id \notin DOMAIN d THEN NotFound ELSE Served(d[id]))

\* The answer of lines 1082-1090, 1095-1103 and 1108-1117.
\* An endpoint that refuses a record older than the retention period, for
\* comparison with ServeFile.
ServeFileMutChecksAge(d, id, field) ==
    IF id \notin DOMAIN d THEN NotFound
    ELSE IF now - FromIsoFormat(UploadTimeField(d[id])).value > MaxAge THEN NotFound
    ELSE IF ~Exists(files, d[id][field]) THEN NotFound
    ELSE Served(files[d[id][field]])

ServeFile(d, id, field) ==
    IF id \notin DOMAIN d THEN NotFound
    ELSE IF ~Exists(files, d[id][field]) THEN NotFound
    ELSE Served(files[d[id][field]])

serve_image(p, faulty) ==
    \E id \in Ids, lo \in LoadChoices(faulty) :
      /\ StartRead(p, "image", id, lo)
      /\ Return(p, ServeFile(load_image_data(dataFile, lo), id, "image_path"))

serve_qr(p, faulty) ==
    \E id \in Ids, lo \in LoadChoices(faulty) :
      /\ StartRead(p, "qr", id, lo)
      /\ Return(p, ServeFile(load_image_data(dataFile, lo), id, "qr_path"))

download_qr(p, faulty) ==
    \E id \in Ids, lo \in LoadChoices(faulty) :
      /\ StartRead(p, "download-qr", id, lo)
      /\ Return(p, ServeFile(load_image_data(dataFile, lo), id, "qr_path"))

\* The server sends the response of worker p, which is free again.
Deliver(p) ==
    /\ pc[p] = "done"
    /\ pc' = [pc EXCEPT ![p] = "idle"]
    /\ req' = [req EXCEPT ![p] = NoRequest]
    /\ image_id' = [image_id EXCEPT ![p] = 0]
    /\ response' = [response EXCEPT ![p] = NoResponse]
    /\ trace' = [trace EXCEPT ![p] = NoTrace]
    /\ UNCHANGED <<opt, now, dataFile, files, nextId, faults, optimized, data, to_remove>>

\* No response is waiting to be sent (sending takes no time).
AllSent == \A p \in Workers : pc[p] # "done"

\* A day passes.
Tick ==
    /\ AllSent
    /\ now < MaxTime
    /\ now' = now + 1
    /\ UNCHANGED <<opt, dataFile, files, nextId, faults, pc, req, image_id, optimized,
                   data, to_remove, response, trace>>

\* The server is left alone for more than the retention period.
LongPause ==
    /\ AllSent
    /\ now + MaxAge + 1 <= MaxTime
    /\ now' = now + MaxAge + 1
    /\ UNCHANGED <<opt, dataFile, files, nextId, faults, pc, req, image_id, optimized,
                   data, to_remove, response, trace>>

(***************************************************************************)
(* optimize_image, lines 93-163, step by step.  The size of an encoding is *)
(* the encoder's choice; an image is its width, height and mode.           *)
(***************************************************************************)
\* max_size_kb=500 of the call at line 1009
max_size_kb == 500
\* max_dimension = 1920
max_dimension == 1920
\* for quality in [85, 75, 65, 55, 45, 35]
QUALITIES == <<85, 75, 65, 55, 45, 35>>
\* for scale in [0.8, 0.6, 0.4], in tenths
SCALES == <<8, 6, 4>>
\* quality=30 of line 140
ScaledQuality == 30
\* quality=20 of line 151
LastQuality == 20
\* The fraction bits of a Python float (IEEE-754 binary64).
FractionBits == 52

\* len(output.getvalue()) of an encoding, in bytes: under the budget, exactly
\* the budget, and two sizes over it.
EncodedSizes ==
    {max_size_kb * 1024 - 1, max_size_kb * 1024,
     max_size_kb * 1024 + 1, max_size_kb * 1024 + 2}

\* current_size_kb <= max_size_kb, with current_size_kb = len / 1024
FitsMutStrict(len) == len < max_size_kb * 1024

\* A comparison that never accepts, for comparison with Fits.
FitsMutNever(len) == FALSE

Fits(len) == len <= max_size_kb * 1024

RECURSIVE Pow2(_)
Pow2(n) == IF n = 0 THEN 1 ELSE 2 * Pow2(n - 1)

\* The least j from `from` on with max_dimension * 2^j >= big: the float
\* max_dimension / big lies in [2^-j, 2^-(j-1)).
RECURSIVE Binade(_, _)
Binade(big, from) ==
    IF max_dimension * Pow2(from) < big THEN Binade(big, from + 1) ELSE from

\* Binary long division of max_dimension by big: the remainder and the last
\* quotient bit after `steps` more bits.
RECURSIVE LongDiv(_, _, _, _)
LongDiv(r, bit, big, steps) ==
    IF steps = 0 THEN [rem |-> r, bit |-> bit]
    ELSE LongDiv((2 * r) % big, (2 * r) \div big, big, steps - 1)

\* ratio = max_dimension / big as a float: the quotient rounded to 53
\* significant bits, ties to even.  The float is
\*   max_dimension / big + err / (big * 2^(FractionBits + binade)).
Ratio(big) ==
    LET j == Binade(big, 1)
        q == LongDiv(max_dimension % big, 0, big, FractionBits + j)
        up == 2 * q.rem > big \/ (2 * q.rem = big /\ q.bit = 1)
    IN  [binade |-> j, err |-> IF up THEN big - q.rem ELSE 0 - q.rem]

\* The least m from `from` on with 2^m >= n.
RECURSIVE Log2Ceil(_, _)
Log2Ceil(n, from) == IF Pow2(from) < n THEN Log2Ceil(n, from + 1) ELSE from

\* int(x * ratio), the float product rounded to nearest and truncated.  The
\* product falls below the exact quotient n only when x * max_dimension / big
\* is the integer n and the error of the ratio is more than half a float
\* step below n.
TimesRatio(x, big) ==
    LET n == (x * max_dimension) \div big
        g == (x * max_dimension) % big
        r == Ratio(big)
    IN  IF g # 0 \/ r.err >= 0 \/ n = 0 THEN n
        ELSE IF 4 * x * (0 - r.err) > big * Pow2(r.binade + Log2Ceil(n, 0))
             THEN n - 1
             ELSE n

Max(a, b) == IF a >= b THEN a ELSE b

\* Lines 117-118: ratio = min(max_dimension / width, max_dimension / height)
\* and new_size, a quotient over the larger dimension.
new_size(img) ==
    LET big == Max(img.width, img.height)
    IN  [width |-> TimesRatio(img.width, big),
         height |-> TimesRatio(img.height, big)]

\* Line 136: (int(img.width * scale), int(img.height * scale)); for the
\* widths up to max_dimension the float product truncates to the exact one.
\* Scales of the scale before, for comparison with Scaled.
RECURSIVE ScaledMutCumulative(_, _)
ScaledMutCumulative(img, i) ==
    IF i = 1
    THEN [width |-> (img.width * SCALES[1]) \div 10,
          height |-> (img.height * SCALES[1]) \div 10]
    ELSE LET before == ScaledMutCumulative(img, i - 1)
         IN  [width |-> (before.width * SCALES[i]) \div 10,
              height |-> (before.height * SCALES[i]) \div 10]

Scaled(img, i) ==
    [width |-> (img.width * SCALES[i]) \div 10,
     height |-> (img.height * SCALES[i]) \div 10]

\* Image.resize raises ValueError for an empty size.
ResizeRaises(size) == size.width < 1 \/ size.height < 1

\* The modes the JPEG encoder writes (JpegImagePlugin.RAWMODE); img.save
\* raises OSError for the others.
JpegModes == {"1", "L", "RGB", "RGBX", "CMYK", "YCbCr"}

\* Lines 104-111: the image is pasted on a white RGB background.
Flattened(mode) == IF mode \in {"RGBA", "LA", "P"} THEN "RGB" ELSE mode

\* image_file.seek(0) / output.seek(0)
\* A seek that leaves the position where it is, for comparison with Rewind.
RewindMutStays(file) == file

Rewind(file) == [file EXCEPT !.pos = "start"]

\* A BytesIO holding the JPEG encoding of an image, as save leaves it.
Encoding(size, quality, scale, len) ==
    [kind |-> "jpeg", width |-> size.width, height |-> size.height,
     quality |-> quality, scale |-> scale, len |-> len, pos |-> "end"]

\* Lines 149-155: the encoding at the lowest quality, returned as it is.
\* A last attempt that gives up over the budget, for comparison.
LastAttemptMutChecksBudget(img, len) ==
    IF Fits(len) THEN Rewind(Encoding(img, LastQuality, 10, len))
    ELSE [kind |-> "none", pos |-> "start"]

LastAttempt(img, len) == Rewind(Encoding(img, LastQuality, 10, len))

\* The images and files optimize_image is called with: sizes at and around
\* max_dimension, very narrow ones, and the modes a PNG, GIF or JPEG opens in.
ImageSizes ==
    { <<2, 2>>, <<800, 600>>, <<1920, 1920>>, <<1921, 1000>>, <<2148, 1000>>,
      <<3000, 2000>>, <<2000, 4000>>, <<1, 4000>> }

ImageModes == {"RGB", "RGBA", "LA", "P", "L", "I;16"}

\* The state of a call: image_file, img, the encodings tried so far, and
\* what the call returned.
Call(decodable, size, mode) ==
    [pc |-> "open", decodable |-> decodable,
     source |-> [width |-> size[1], height |-> size[2], mode |-> mode],
     image_file |-> [kind |-> "file", bytes |-> "upload", pos |-> "start"],
     img |-> [width |-> 0, height |-> 0, mode |-> "none"],
     i |-> 0, attempts |-> <<>>, raised |-> "no",
     result |-> [kind |-> "none", pos |-> "start"]]

\* Lines 157-163: the except branch returns image_file after seek(0).
Except(o, where) ==
    [o EXCEPT !.pc = "returned", !.raised = where,
              !.result = Rewind(o.image_file)]

\* Every variable but opt.
others == <<now, dataFile, files, nextId, faults, pc, req, image_id, optimized,
            data, to_remove, response, trace>>

\* Lines 99-101: seek(0) and Image.open, which reads the header.
OptOpen ==
    /\ opt.pc = "open"
    /\ LET o == [opt EXCEPT !.image_file = [Rewind(@) EXCEPT !.pos = "header"]]
       IN  opt' = IF ~opt.decodable THEN Except(o, "decode")
                  ELSE [o EXCEPT !.pc = "flatten", !.img = opt.source]
    /\ UNCHANGED others

\* Lines 104-111.
OptFlatten(faulty) ==
    /\ opt.pc = "flatten"
    /\ \E fail \in {FALSE} \cup {f \in {TRUE} : MayFail(faulty)} :
          /\ faults' = faults + (IF fail THEN 1 ELSE 0)
          /\ opt' = IF fail THEN Except(opt, "flatten")
                    ELSE [opt EXCEPT !.pc = "resize",
                                     !.img.mode = Flattened(@)]
    /\ UNCHANGED <<now, dataFile, files, nextId, pc, req, image_id, optimized,
                   data, to_remove, response, trace>>

\* Lines 113-120.
OptResize(faulty) ==
    /\ opt.pc = "resize"
    /\ \E fail \in {FALSE} \cup {f \in {TRUE} : MayFail(faulty)} :
          LET large == opt.img.width > max_dimension \/ opt.img.height > max_dimension
              size == new_size(opt.img)
          IN  /\ faults' = faults + (IF fail THEN 1 ELSE 0)
              /\ opt' = IF fail \/ (large /\ ResizeRaises(size))
                        THEN Except(opt, "resize")
                        ELSE [opt EXCEPT !.pc = "quality", !.i = 1,
                                  !.img.width = IF large THEN size.width ELSE @,
                                  !.img.height = IF large THEN size.height ELSE @]
    /\ UNCHANGED <<now, dataFile, files, nextId, pc, req, image_id, optimized,
                   data, to_remove, response, trace>>

\* Lines 122-132, one turn of the loop.
OptQuality(faulty) ==
    /\ opt.pc = "quality"
    /\ \E fail \in {FALSE} \cup {f \in {TRUE} : MayFail(faulty)}, len \in EncodedSizes :
          LET output == Encoding(opt.img, QUALITIES[opt.i], 10, len)
              tried == [opt EXCEPT !.attempts = Append(@, output)]
          IN  /\ fail => len = max_size_kb * 1024
              /\ faults' = faults + (IF fail THEN 1 ELSE 0)
              /\ opt' = IF fail \/ opt.img.mode \notin JpegModes
                        THEN Except(opt, "encode")
                        ELSE IF Fits(len)
                        THEN [tried EXCEPT !.pc = "returned", !.result = Rewind(output)]
                        ELSE IF opt.i < Len(QUALITIES)
                        THEN [tried EXCEPT !.i = @ + 1]
                        ELSE [tried EXCEPT !.pc = "scale", !.i = 1]
    /\ UNCHANGED <<now, dataFile, files, nextId, pc, req, image_id, optimized,
                   data, to_remove, response, trace>>

\* Lines 134-147, one turn of the loop.
OptScale(faulty) ==
    /\ opt.pc = "scale"
    /\ \E fail \in {FALSE} \cup {f \in {TRUE} : MayFail(faulty)}, len \in EncodedSizes :
          LET size == Scaled(opt.img, opt.i)
              output == Encoding(size, ScaledQuality, SCALES[opt.i], len)
              tried == [opt EXCEPT !.attempts = Append(@, output)]
          IN  /\ fail => len = max_size_kb * 1024
              /\ faults' = faults + (IF fail THEN 1 ELSE 0)
              /\ opt' = IF fail \/ ResizeRaises(size)
                        THEN Except(opt, "scale")
                        ELSE IF Fits(len)
                        THEN [tried EXCEPT !.pc = "returned", !.result = Rewind(output)]
                        ELSE IF opt.i < Len(SCALES)
                        THEN [tried EXCEPT !.i = @ + 1]
                        ELSE [tried EXCEPT !.pc = "last", !.i = 0]
    /\ UNCHANGED <<now, dataFile, files, nextId, pc, req, image_id, optimized,
                   data, to_remove, response, trace>>

\* Lines 149-155.
OptLast(faulty) ==
    /\ opt.pc = "last"
    /\ \E fail \in {FALSE} \cup {f \in {TRUE} : MayFail(faulty)}, len \in EncodedSizes :
          /\ fail => len = max_size_kb * 1024
          /\ faults' = faults + (IF fail THEN 1 ELSE 0)
          /\ opt' = IF fail THEN Except(opt, "encode")
                    ELSE [opt EXCEPT !.pc = "returned",
                              !.attempts = Append(@, Encoding(opt.img, LastQuality, 10, len)),
                              !.result = LastAttempt(opt.img, len)]
    /\ UNCHANGED <<now, dataFile, files, nextId, pc, req, image_id, optimized,
                   data, to_remove, response, trace>>

(***************************************************************************)
(* Specifications.                                                         *)
(***************************************************************************)
\* One step of an upload handled by worker p.
UploadStep(p, faulty) ==
    \/ RejectUpload(p)
    \/ AcceptUpload(p)
    \/ SweepScan(p, faulty)
    \/ SweepSave(p, faulty)
    \/ Optimize(p, faulty)
    \/ WriteImage(p, faulty)
    \/ EncodeQr(p, faulty)
    \/ WriteQr(p, faulty)
    \/ Insert(p, faulty)
    \/ Save(p, faulty)
    \/ Respond(p)

\* A read request handled by worker p.
ReadStep(p, faulty) ==
    \/ view_image(p, faulty)
    \/ serve_image(p, faulty)
    \/ serve_qr(p, faulty)
    \/ download_qr(p, faulty)

\* One thread handles the requests one after the other (the single writer
\* the design assumes); I/O calls may fail.
Next ==
    \/ UploadStep(MainWorker, TRUE)
    \/ ReadStep(MainWorker, TRUE)
    \/ Deliver(MainWorker)
    \/ Tick

Spec == Init /\ [][Next]_vars

\* One thread, every I/O call succeeds.
NextReliable ==
    \/ UploadStep(MainWorker, FALSE)
    \/ ReadStep(MainWorker, FALSE)
    \/ Deliver(MainWorker)
    \/ Tick

SpecReliable == Init /\ [][NextReliable]_vars

\* Uploads handled concurrently by the workers, every I/O call succeeds.
NextConcurrent ==
    \/ \E p \in Workers : UploadStep(p, FALSE)
    \/ \E p \in Workers : Deliver(p)
    \/ LongPause

SpecConcurrent == Init /\ [][NextConcurrent]_vars

(***************************************************************************)
(* The sweep on every store content and every current time: an upload has  *)
(* passed the checks and is about to call clean_old_images, on a disk left *)
(* by earlier runs.  A record's files may be missing.                      *)
(***************************************************************************)
\* A record as upload_image wrote it at time t.
StoredRecord(id, t) ==
    NewRecord(id, <<"a",".","P","N","G">>, Put(EmptyMap, ImagePath(id), "jpeg"), t)

PathsOf(S) == {ImagePath(id) : id \in S} \cup {QrPath(id) : id \in S}

ContentAt(path) == IF IsImagePath(path) THEN "jpeg" ELSE QrContent(ViewUrl(path[2]))

\* The upload times of the stored records: just uploaded, and around the
\* retention period (one day less, exactly, one day more).
UploadTimes(t) ==
    {t, t - MaxAge + 1, t - MaxAge, t - MaxAge - 1} \cap (0..t)

\* A record of a file written by hand or by another version: its
\* upload_time is as upload_image writes it ("iso"), is missing, or is a
\* string that is no ISO-8601 date.
SweepRecord(id, t, field) ==
    LET info == StoredRecord(id, t)
    IN  CASE field = "missing" ->
               [f \in (DOMAIN info) \ {"upload_time"} |-> info[f]]
          [] field = "invalid" -> [info EXCEPT !.upload_time = <<"not a date">>]
          [] OTHER -> info

InitSweep ==
    /\ now \in 0..MaxTime
    /\ \E S \in SUBSET Ids :
         \E T \in [S -> UploadTimes(now)], U \in [S -> {"iso", "missing", "invalid"}],
            F \in SUBSET PathsOf(S) :
           /\ \A id \in S : U[id] # "iso" => T[id] = now
           /\ dataFile \in
                IF S = {}
                THEN {AbsentFile, [kind |-> "corrupt", data |-> EmptyMap],
                      [kind |-> "json_list", data |-> EmptyMap],
                      [kind |-> "json", data |-> EmptyMap]}
                ELSE {[kind |-> "json",
                       data |-> [id \in S |-> SweepRecord(id, T[id], U[id])]]}
           /\ files = [path \in F |-> ContentAt(path)]
    /\ nextId = MaxIds + 1
    /\ faults = 0
    /\ pc = [p \in Workers |-> IF p = MainWorker THEN "clean" ELSE "idle"]
    /\ req = [p \in Workers |->
                IF p = MainWorker
                THEN UploadRequest(TRUE, <<"a",".","P","N","G">>, TRUE)
                ELSE NoRequest]
    /\ image_id = [p \in Workers |-> 0]
    /\ optimized = [p \in Workers |-> "none"]
    /\ data = [p \in Workers |-> EmptyMap]
    /\ to_remove = [p \in Workers |-> <<>>]
    /\ response = [p \in Workers |-> NoResponse]
    /\ trace = [p \in Workers |-> NoTrace]
    /\ opt = NoSearch

NextSweep ==
    \/ SweepScan(MainWorker, TRUE)
    \/ SweepSave(MainWorker, TRUE)

SpecSweep == InitSweep /\ [][NextSweep]_vars

(***************************************************************************)
(* optimize_image on every image of the sample: one call, followed from    *)
(* its first line to its return; any step after the decode may raise.      *)
(***************************************************************************)
InitOptimize ==
    /\ now = 0
    /\ dataFile = AbsentFile
    /\ files = EmptyMap
    /\ nextId = 1
    /\ faults = 0
    /\ pc = [p \in Workers |-> "idle"]
    /\ req = [p \in Workers |-> NoRequest]
    /\ image_id = [p \in Workers |-> 0]
    /\ optimized = [p \in Workers |-> "none"]
    /\ data = [p \in Workers |-> EmptyMap]
    /\ to_remove = [p \in Workers |-> <<>>]
    /\ response = [p \in Workers |-> NoResponse]
    /\ trace = [p \in Workers |-> NoTrace]
    /\ \E decodable \in BOOLEAN, size \in ImageSizes, mode \in ImageModes :
          opt = Call(decodable, size, mode)

NextOptimize ==
    \/ OptOpen
    \/ OptFlatten(TRUE)
    \/ OptResize(TRUE)
    \/ OptQuality(TRUE)
    \/ OptScale(TRUE)
    \/ OptLast(TRUE)

SpecOptimize == InitOptimize /\ [][NextOptimize]_vars

(***************************************************************************)
(* Properties.                                                             *)
(***************************************************************************)
\* The records a reader of the persistence file sees.
Store == Records(dataFile)

\* The day a stored record was uploaded.
UploadDay(info) == FromIsoFormat(UploadTimeField(info)).value

\* Both backing files of a record are on disk.
FilesPresent(fs, info) ==
    Exists(fs, PathField(info, "image_path")) /\ Exists(fs, PathField(info, "qr_path"))

\* The sweep of worker p's request has just returned.
SweepReturned(p) == pc[p] = "optimize" /\ trace[p].swept

\* The I/O calls of worker p's sweep all succeeded (the mapping was read,
\* and written if the sweep wrote it) and no upload_time failed to parse.
SweepIoOk(p) ==
    /\ trace[p].sweepLoad = "ok"
    /\ trace[p].sweepSave \in {"none", "ok"}
    /\ ~trace[p].sweepRaised

\* Worker p's upload has returned the success response.
Succeeded(p) ==
    pc[p] = "done" /\ req[p].kind = "upload" /\ response[p].body = "success"

\* C1: whenever no request is being handled, a record is in the persisted
\* store if and only if both its image file and its QR file exist: every
\* record has both files (no dangling record) and every image or QR file on
\* disk belongs to a record of the store (no orphan file).
C1_NoOrphanNoDangling ==
    (\A p \in Workers : pc[p] \in {"idle", "done"}) =>
        /\ \A id \in DOMAIN Store : FilesPresent(files, Store[id])
        /\ \A path \in DOMAIN files :
             \E id \in DOMAIN Store :
                path \in {Store[id].image_path, Store[id].qr_path}

\* C2: when a sweep whose I/O succeeded has returned, the persisted mapping
\* holds exactly the records it held before whose age, at the sweep's
\* current time, is not strictly greater than 7 days (a record aged exactly
\* 7 days stays), each with the fields it had.
C2_SweepRemovesExactlyExpired ==
    \A p \in Workers :
       (SweepReturned(p) /\ SweepIoOk(p)) =>
          LET pre == trace[p].sweepPre
              kept == {id \in DOMAIN pre :
                          ~(trace[p].sweepNow - UploadDay(pre[id]) > MaxAge)}
          IN  /\ DOMAIN Store = kept
              /\ \A id \in kept : Store[id] = pre[id]

\* A sweep removed a record older than 7 days and kept one aged exactly 7 days.
C2_Witness ==
    \E p \in Workers :
       /\ SweepReturned(p) /\ SweepIoOk(p)
       /\ \E a, b \in DOMAIN trace[p].sweepPre :
            /\ trace[p].sweepNow - UploadDay(trace[p].sweepPre[a]) > MaxAge
            /\ trace[p].sweepNow - UploadDay(trace[p].sweepPre[b]) = MaxAge
            /\ a \notin DOMAIN Store
            /\ b \in DOMAIN Store

Uploading(p) == pc[p] \notin {"idle", "done"} /\ image_id[p] # 0

\* C4: within one upload the steps run in the order optimize, write image
\* file, encode QR, write QR file, insert record, persist store: from the QR
\* encoding on the image file holds what optimize returned, from the insert
\* on the QR file exists, the record is in the local mapping only from the
\* persist step on and in the persistence file only after it; and in every
\* intermediate state the persistence file holds the new record only if
\* both its image file and its QR file are on disk.
C4_RecordVisibleOnlyWithFiles ==
    \A p \in Workers :
       Uploading(p) =>
          LET id == image_id[p]
          IN  /\ pc[p] \in {"encode_qr", "write_qr", "insert", "save", "respond"}
                   => /\ Exists(files, ImagePath(id))
                      /\ files[ImagePath(id)] = optimized[p]
              /\ pc[p] \in {"insert", "save", "respond"}
                   => /\ trace[p].encode = "ok"
                      /\ Exists(files, QrPath(id))
              /\ pc[p] \in {"write_image", "encode_qr", "write_qr", "insert"}
                   => id \notin DOMAIN data[p]
              /\ pc[p] \in {"write_image", "encode_qr", "write_qr", "insert", "save"}
                   => id \notin DOMAIN Store
              /\ pc[p] = "save" => id \in DOMAIN data[p]
              /\ id \in DOMAIN Store
                   => /\ Exists(files, ImagePath(id))
                      /\ Exists(files, QrPath(id))

\* An upload has persisted its record and has not answered yet: the record
\* is visible and both files are on disk.
C4_Witness ==
    \E p \in Workers :
       /\ pc[p] = "respond"
       /\ image_id[p] \in DOMAIN Store
       /\ FilesPresent(files, Store[image_id[p]])

\* C5: upload_image returns the success response only if every core step
\* succeeded: the bytes decoded, both files were written, the QR code was
\* encoded, and the new record was written to the persistence file.
C5_SuccessOnlyIfAllStepsSucceeded ==
    \A p \in Workers :
       Succeeded(p) =>
          /\ req[p].decodable
          /\ trace[p].imageWrite = "ok"
          /\ trace[p].encode = "ok"
          /\ trace[p].qrWrite = "ok"
          /\ trace[p].save = "ok"
          /\ image_id[p] \in DOMAIN Store

\* C6: a failure of save_image_data to write the persistence file is
\* reported to its caller: what upload_image gets back from the call, and
\* what the caller of the sweep gets back from clean_old_images, differs
\* from the None of a successful call.
C6_SaveFailureReported ==
    \A p \in Workers :
       /\ trace[p].save \in {"open_failed", "write_failed"}
             => trace[p].saveResult # "None"
       /\ trace[p].sweepSave \in {"open_failed", "write_failed"}
             => trace[p].sweepResult # "None"

\* C7: when the uploaded bytes cannot be decoded as an image the upload is
\* rejected: no image file is stored, no QR file is written, no record is
\* inserted for that request, and the answer is an error.
C7_UndecodableUploadRejected ==
    \A p \in Workers :
       (req[p].kind = "upload" /\ ~req[p].decodable /\ image_id[p] # 0) =>
          /\ ~Exists(files, ImagePath(image_id[p]))
          /\ ~Exists(files, QrPath(image_id[p]))
          /\ image_id[p] \notin DOMAIN Store
          /\ pc[p] = "done" => response[p].body = "error"

\* C8: store access is not serialized: the save of an upload overwrites the
\* persistence file with the mapping that upload loaded plus its own record,
\* whatever another upload has written in between (last writer wins); the
\* interleaving in which both uploads succeed and one record is lost is
\* C8_Witness.
C8_LastWriterWins ==
    [][\A p \in Workers :
          (pc[p] = "save" /\ pc'[p] # "save") =>
              /\ Records(dataFile') = data[p]
              /\ \A q \in Workers \ {p} :
                    (image_id[q] \in DOMAIN Store /\ image_id[q] \notin DOMAIN data[p])
                       => image_id[q] \notin DOMAIN Records(dataFile')]_vars

\* Both uploads returned success and the persisted mapping holds the record
\* of only one of them.
C8_Witness ==
    \E p, q \in Workers :
       /\ p # q
       /\ Succeeded(p) /\ Succeeded(q)
       /\ image_id[p] \in DOMAIN Store
       /\ image_id[q] \notin DOMAIN Store
       /\ DOMAIN Store = {image_id[p]}

\* C9: in a single-threaded run a persisted record never has a field
\* changed, and it leaves the persisted mapping only in the save of a sweep
\* that found it older than 7 days; no upload step and no read request
\* removes or rewrites a record.
C9_RecordsImmutableUntilSwept ==
    [][\A id \in DOMAIN Store :
          /\ id \in DOMAIN Records(dataFile') => Records(dataFile')[id] = Store[id]
          /\ id \notin DOMAIN Records(dataFile') =>
                \E p \in Workers :
                   /\ pc[p] = "clean_save"
                   /\ pc'[p] = "optimize"
                   /\ id \in Range(to_remove[p])
                   /\ trace[p].sweepNow - UploadDay(Store[id]) > MaxAge]_vars

\* A sweep has evicted a record that was persisted, during an upload that
\* goes on to add its own.
C9_Witness ==
    \E p \in Workers :
       /\ SweepReturned(p)
       /\ trace[p].sweepSave = "ok"
       /\ \E id \in DOMAIN trace[p].sweepPre : id \notin DOMAIN Store

\* C10: in a single-threaded run, when the upload of B has succeeded, every
\* record A that was in the store when B's upload began and is at most 7
\* days old is still in the store, unchanged, with both files on disk, and
\* so is B's record: the sweep that precedes B's insertion does not remove a
\* record whose age is within 7 days.
C10_UploadKeepsUnexpired ==
    \A p \in Workers :
       Succeeded(p) =>
          /\ image_id[p] \in DOMAIN Store
          /\ FilesPresent(files, Store[image_id[p]])
          /\ \A a \in DOMAIN trace[p].sweepPre :
                now - UploadDay(trace[p].sweepPre[a]) <= MaxAge =>
                   /\ a \in DOMAIN Store
                   /\ Store[a] = trace[p].sweepPre[a]
                   /\ FilesPresent(files, Store[a])

\* B's upload succeeded; A, uploaded before, was exactly 7 days old when the
\* sweep of B's upload ran, and is still in the store with its files.
C10_Witness ==
    \E p \in Workers :
       /\ Succeeded(p)
       /\ now = trace[p].sweepNow
       /\ \E a \in DOMAIN Store :
            /\ a # image_id[p]
            /\ a \in DOMAIN trace[p].sweepPre
            /\ now - UploadDay(Store[a]) = MaxAge
            /\ FilesPresent(files, Store[a])

\* What load_image_data returned to the sweep.
SweepLoaded(p) == trace[p].sweepLoaded

\* The records a sweep read that were older than 7 days at its current time.
SweepExpired(p) ==
    {id \in DOMAIN SweepLoaded(p) :
        trace[p].sweepNow - UploadDay(SweepLoaded(p)[id]) > MaxAge}

\* C11: one sweep writes the persistence file at most once.  When it has
\* returned after going through all the records it has called
\* save_image_data exactly once if at least one record it read was expired,
\* and what it wrote is the mapping it read without any of the expired
\* records; it has not called it when no record was expired.
C11_SweepSavesOnce ==
    \A p \in Workers :
       /\ trace[p].sweepWrites <= 1
       /\ (SweepReturned(p) /\ ~trace[p].sweepRaised) =>
             /\ trace[p].sweepWrites = (IF SweepExpired(p) # {} THEN 1 ELSE 0)
             /\ SweepExpired(p) # {} =>
                   trace[p].sweepWritten =
                      Restrict(SweepLoaded(p), (DOMAIN SweepLoaded(p)) \ SweepExpired(p))

\* A sweep removed two expired records and wrote the file once.
C11_Witness ==
    \E p \in Workers :
       /\ SweepReturned(p)
       /\ Cardinality(SweepExpired(p)) >= 2
       /\ trace[p].sweepWrites = 1
       /\ trace[p].sweepSave = "ok"
       /\ DOMAIN Store \cap SweepExpired(p) = {}

\* C12: a sweep returns to its caller the number of records it removed (1
\* after removing one 8-day-old record, 0 when it removed nothing).
C12_SweepReturnsCount ==
    \A p \in Workers :
       SweepReturned(p) =>
          trace[p].sweepResult = ToString(Len(to_remove[p]))

\* C13: what load_image_data returns is in every case a mapping from id to
\* record, and it is the empty mapping whenever the persistence file is
\* absent, cannot be read or cannot be parsed.
C13_LoadReturnsMapping ==
    \A p \in Workers :
       trace[p].sweepLoad # "none" =>
          /\ trace[p].sweepLoadType = "dict"
          /\ (trace[p].sweepFile \in {"absent", "corrupt"} \/ trace[p].sweepLoad = "fail")
                => SweepLoaded(p) = EmptyMap

\* The call of optimize_image has returned / has returned without having
\* entered its except branch.
Returned == opt.pc = "returned"

ReturnedEncoding == Returned /\ opt.raised = "no"

\* The encodings tried so far, by their position in the search.
Tried == IF opt.pc = "idle" THEN <<>> ELSE opt.attempts

\* C14: the first six encodings are of the dimension-capped image at the
\* qualities 85, 75, 65, 55, 45, 35 in that order; one whose size is at or
\* under max_size_kb (500 KB = 512000 bytes) is the last one tried and is
\* what the call returns, rewound; so every quality tried before the
\* returned one was over the budget.
C14_FirstFittingQuality ==
    \A k \in 1..Len(Tried) :
       k <= 6 =>
          /\ Tried[k].quality = <<85, 75, 65, 55, 45, 35>>[k]
          /\ Tried[k].scale = 10
          /\ Tried[k].width = opt.img.width /\ Tried[k].height = opt.img.height
          /\ \A h \in 1..(k - 1) : Tried[h].len > 512000
          /\ Tried[k].len <= 512000 =>
                /\ k = Len(Tried)
                /\ ReturnedEncoding
                /\ opt.result = [Tried[k] EXCEPT !.pos = "start"]

\* The third quality, 65, gave exactly 500 KB and was returned.
C14_Witness ==
    /\ ReturnedEncoding
    /\ Len(Tried) = 3
    /\ opt.result.quality = 65
    /\ opt.result.len = 512000

\* C15: a scaled copy is tried only after the six qualities were all over
\* the budget; the seventh, eighth and ninth encodings are of the
\* dimension-capped image scaled by 0.8, 0.6 and 0.4 (each factor applied to
\* the capped image itself), at quality 30, and the first of them within the
\* budget is the last one tried and is what the call returns.
C15_ScaledCopiesAfterQualities ==
    /\ opt.pc = "scale" => Len(Tried) >= 6
    /\ \A k \in 1..Len(Tried) :
          (k > 6 /\ k <= 9) =>
             /\ \A h \in 1..(k - 1) : Tried[h].len > 512000
             /\ Tried[k].quality = 30
             /\ Tried[k].scale = <<8, 6, 4>>[k - 6]
             /\ Tried[k].width = (opt.img.width * Tried[k].scale) \div 10
             /\ Tried[k].height = (opt.img.height * Tried[k].scale) \div 10
             /\ Tried[k].len <= 512000 =>
                   /\ k = Len(Tried)
                   /\ ReturnedEncoding
                   /\ opt.result = [Tried[k] EXCEPT !.pos = "start"]

\* The six qualities and the 0.8 copy were over the budget; the 0.6 copy of
\* a 1920 pixels wide image fits and is returned.
C15_Witness ==
    /\ ReturnedEncoding
    /\ Len(Tried) = 8
    /\ opt.img.width = 1920
    /\ opt.result.scale = 6
    /\ opt.result.width = 1152

\* C16: when the six qualities and the three scaled copies were all over
\* the budget, the call returns one more encoding of the dimension-capped
\* image, at quality 20, whatever its size; and a call that did not raise
\* inside always returns an encoding, never a failure.
C16_LastAttemptUnconditional ==
    /\ ReturnedEncoding => opt.result.kind = "jpeg" /\ opt.result.pos = "start"
    /\ (ReturnedEncoding /\ Len(Tried) = 10) =>
          /\ \A h \in 1..9 : Tried[h].len > 512000
          /\ opt.result.quality = 20
          /\ opt.result.scale = 10
          /\ opt.result.width = opt.img.width
          /\ opt.result.height = opt.img.height
          /\ opt.result.len = Tried[10].len

\* Nothing fitted and the encoding at quality 20, itself over the budget,
\* was returned.
C16_Witness ==
    /\ ReturnedEncoding
    /\ Len(Tried) = 10
    /\ opt.result.quality = 20
    /\ opt.result.len > 512000

\* C17: for a decodable image, when one of the encodings the call tried has
\* a size at or under max_size_kb, what the call returns is an encoding of
\* size at or under max_size_kb.
C17_OutputWithinBudget ==
    (Returned /\ opt.decodable /\ \E k \in 1..Len(Tried) : Tried[k].len <= 512000) =>
       /\ opt.result.kind = "jpeg"
       /\ opt.result.len <= 512000

\* Only the last scaled copy (0.4) was within the budget, and it was returned.
C17_Witness ==
    /\ Returned /\ opt.decodable
    /\ Len(Tried) = 9
    /\ \A h \in 1..8 : Tried[h].len > 512000
    /\ opt.result.kind = "jpeg"
    /\ opt.result.scale = 4
    /\ opt.result.len < 512000

\* C18: for every decodable image, whatever the path the call returns on,
\* it returns a JPEG whose width and height are both at most 1920; when the
\* input is larger than 1920 in either dimension, the larger dimension of
\* the capped image is exactly 1920.
C18_OutputWithinMaxDimension ==
    /\ (Returned /\ opt.decodable) =>
          /\ opt.result.kind = "jpeg"
          /\ opt.result.width <= 1920 /\ opt.result.height <= 1920
    /\ (opt.pc \in {"quality", "scale", "last"}
          /\ (opt.source.width > 1920 \/ opt.source.height > 1920)) =>
          Max(opt.img.width, opt.img.height) = 1920

\* C19: when a step after the successful decode raises (flattening,
\* resizing, an encode), the call returns the file it was given, with the
\* uploaded bytes, positioned at its start.
C19_FailureReturnsOriginal ==
    (Returned /\ opt.decodable /\ opt.raised # "no") =>
       /\ opt.result.kind = "file"
       /\ opt.result.bytes = "upload"
       /\ opt.result.pos = "start"

\* The encode of a decoded image raised after the file had been read, and
\* the file came back rewound.
C19_Witness ==
    /\ Returned /\ opt.decodable
    /\ opt.raised = "encode"
    /\ opt.image_file.pos = "header"
    /\ opt.result.kind = "file"
    /\ opt.result.pos = "start"

\* C20: when the view URL cannot be encoded as a QR code, create_qr_code
\* yields no code, upload_image answers with an error (status 500) at once,
\* no QR file is written and no record of that request is in the store.
C20_QrFailureRejectsUpload ==
    \A p \in Workers :
       (req[p].kind = "upload" /\ trace[p].encode = "fail") =>
          /\ pc[p] = "done"
          /\ response[p] = ErrorResponse(500)
          /\ ~Exists(files, QrPath(image_id[p]))
          /\ image_id[p] \notin DOMAIN Store

\* The encoder failed for an upload whose image file was already written.
C20_Witness ==
    \E p \in Workers :
       /\ req[p].kind = "upload" /\ trace[p].encode = "fail"
       /\ trace[p].imageWrite = "ok"
       /\ Exists(files, ImagePath(image_id[p]))
       /\ response[p].status = 500

\* The requests of the read endpoints.
ReadKinds == {"view", "image", "qr", "download-qr"}

\* C21: retention is enforced only by uploads.  A sweep runs only inside an
\* upload request that passed validation; the persistence file and the two
\* directories change only while such an upload is being handled (never by
\* a read request, a rejected upload or the passing of time); and a read
\* request whose load succeeds answers 200 for every record of the store
\* whose file is on disk, whatever the record's age.
C21_RetentionOnlyOnUpload ==
    [][ /\ \A p \in Workers :
              pc'[p] \in {"clean", "clean_save"} =>
                 /\ req'[p].kind = "upload"
                 /\ req'[p].has_image /\ req'[p].filename # <<>>
        /\ (dataFile' # dataFile \/ files' # files) =>
              \E p \in Workers :
                 req[p].kind = "upload" /\ pc[p] \notin {"idle", "done"}
        /\ \A p \in Workers :
              (pc[p] = "idle" /\ req'[p].kind \in ReadKinds) =>
                 /\ trace'[p].sweepLoad = "none"
                 /\ ( ( /\ trace'[p].load = "ok"
                        /\ req'[p].id \in DOMAIN Store
                        /\ FilesPresent(files, Store[req'[p].id]) )
                      => response'[p].status = 200 )
      ]_vars

\* A record older than 7 days is still in the store and its QR code has just
\* been served.
C21_Witness ==
    \E p \in Workers :
       /\ pc[p] = "done" /\ req[p].kind = "qr"
       /\ req[p].id \in DOMAIN Store
       /\ now - UploadDay(Store[req[p].id]) > MaxAge
       /\ response[p].status = 200

\* The upload requests C22 is about: no 'image' part, an empty file name, or
\* a name whose part after the last dot, in lower case, is none of the six
\* extensions (a name without a dot has none).
Refused(r) ==
    \/ ~r.has_image
    \/ r.filename = <<>>
    \/ LastDot(r.filename) = 0
    \/ LowerSeq(Extension(r.filename)) \notin
          { <<"p","n","g">>, <<"j","p","g">>, <<"j","p","e","g">>,
            <<"g","i","f">>, <<"b","m","p">>, <<"w","e","b","p">> }

\* C22: an upload request without 'image' part, with an empty file name or
\* with a file name whose extension is not allowed is answered 400 in one
\* step, before any sweep, and the persistence file, the image directory
\* and the QR directory are left as they were.
C22_InvalidUploadRejected ==
    [][ \A p \in Workers :
          (pc[p] = "idle" /\ req'[p].kind = "upload" /\ Refused(req'[p])) =>
             /\ pc'[p] = "done"
             /\ response'[p] = [status |-> 400, body |-> "error"]
             /\ trace'[p].sweepLoad = "none"
             /\ dataFile' = dataFile
             /\ files' = files
      ]_vars

\* An upload named x.txt was refused while the store held a record.
C22_Witness ==
    \E p \in Workers :
       /\ pc[p] = "done" /\ req[p].kind = "upload"
       /\ req[p].filename = <<"x", ".", "t", "x", "t">>
       /\ response[p].status = 400
       /\ trace[p].sweepLoad = "none"
       /\ DOMAIN Store # {}

\* The records the sweep of worker p found in the file that have no
\* upload_time field.
Undated(p) ==
    {id \in DOMAIN trace[p].sweepPre : "upload_time" \notin DOMAIN trace[p].sweepPre[id]}

\* Every upload_time the sweep of worker p found parses as a date.
AllDatesParse(p) ==
    \A id \in (DOMAIN trace[p].sweepPre) \ Undated(p) :
       FromIsoFormat(trace[p].sweepPre[id].upload_time).ok

\* C23: a record without upload_time counts as uploaded on day 0
\* (2024-01-01T00:00:00).  A sweep that read the mapping, met no unparsable
\* date and could write is not aborted by the missing field; when its
\* current time is more than 7 days after day 0 the record is out of the
\* store and its files are deleted (unless their removal raised), and
\* otherwise the record stays.
C23_MissingUploadTimeDefault ==
    \A p \in Workers :
       ( /\ SweepReturned(p)
         /\ trace[p].sweepLoad = "ok" /\ trace[p].sweepLoadType = "dict"
         /\ trace[p].sweepSave \in {"none", "ok"}
         /\ AllDatesParse(p) ) =>
          /\ ~trace[p].sweepRaised
          /\ \A id \in Undated(p) :
                IF trace[p].sweepNow - 0 > 7
                THEN /\ id \notin DOMAIN Store
                     /\ id \notin trace[p].sweepFailed =>
                           /\ ~Exists(files, ImagePath(id))
                           /\ ~Exists(files, QrPath(id))
                ELSE /\ id \in DOMAIN Store
                     /\ Store[id] = trace[p].sweepPre[id]

\* A sweep at day 8 evicted a record without upload_time and deleted its
\* two files.
C23_Witness ==
    \E p \in Workers :
       /\ SweepReturned(p)
       /\ trace[p].sweepNow = 8
       /\ \E id \in Undated(p) :
            /\ id \notin DOMAIN Store
            /\ Exists(trace[p].sweepFiles, ImagePath(id))
            /\ Exists(trace[p].sweepFiles, QrPath(id))
            /\ ~Exists(files, ImagePath(id))
            /\ ~Exists(files, QrPath(id))

\* C24: a removal that raises during a sweep neither stops the sweep nor
\* keeps the record: every record older than 7 days is out of the store
\* afterwards, and of a record one of whose removals raised, the other file
\* has still been deleted (at most the file whose removal raised is left).
C24_DeleteFailureLeavesOtherFile ==
    \A p \in Workers :
       ( /\ SweepReturned(p)
         /\ trace[p].sweepLoad = "ok" /\ trace[p].sweepLoadType = "dict"
         /\ trace[p].sweepSave \in {"none", "ok"}
         /\ AllDatesParse(p) ) =>
          /\ \A id \in DOMAIN trace[p].sweepPre :
                trace[p].sweepNow - UploadDay(trace[p].sweepPre[id]) > 7
                   => id \notin DOMAIN Store
          /\ \A id \in trace[p].sweepFailed :
                ~(Exists(files, ImagePath(id)) /\ Exists(files, QrPath(id)))

\* C25: a sweep that aborts because processing a record raised has deleted
\* no file and has left the persisted mapping as it was, and the upload
\* goes on.
C25_AbortedSweepChangesNothing ==
    \A p \in Workers :
       (SweepReturned(p) /\ trace[p].sweepRaised) =>
          /\ files = trace[p].sweepFiles
          /\ Store = trace[p].sweepPre
          /\ pc[p] = "optimize"

\* C26: when an upload has succeeded and its writes of the persistence file
\* went through, every record that was in the file when the upload began
\* and is at most 7 days old is still in the file, unchanged, also when a
\* load_image_data call of that upload failed.
C26_UploadKeepsRecordsDespiteLoadFailure ==
    \A p \in Workers :
       ( /\ Succeeded(p)
         /\ trace[p].save = "ok"
         /\ trace[p].sweepSave \in {"none", "ok"} ) =>
          \A a \in DOMAIN trace[p].sweepPre :
             trace[p].sweepNow - UploadDay(trace[p].sweepPre[a]) <= 7 =>
                /\ a \in DOMAIN Store
                /\ Store[a] = trace[p].sweepPre[a]

\* C27: when none of the nine encodings of the search met the budget, what
\* the call returns is no larger than any of them, the 0.4 copy at quality
\* 30 included.
C27_FallbackIsSmallest ==
    (ReturnedEncoding /\ Len(Tried) = 10) =>
       \A k \in 1..9 : opt.result.len <= Tried[k].len

=============================================================================
